---- MODULE Spec2Model ----
(***************************************************************************)
(* A cluster of ConsensusEngine nodes (distributed_consensus.rs).  Each    *)
(* node is the set of fields of the struct; the two RPC handlers           *)
(* request_vote and append_entries hold the write lock on current_term     *)
(* from their first statement to their return, so on one node they         *)
(* exclude each other and each is one atomic step.                         *)
(*                                                                         *)
(* The repository has no sender side: replicate_log is a stub and no code  *)
(* starts an election.  The RPCs are delivered by the transport, which is  *)
(* modelled as a well-behaved peer: vote requests of any candidate of the  *)
(* cluster, and AppendEntries requests cut out of one append-only leader   *)
(* log (leaderLog), any of them lost, repeated or delivered late.          *)
(***************************************************************************)
EXTENDS Integers, Sequences, FiniteSets, TLC

\* ---- bounds of the model ------------------------------------------------
MaxTerm == 2
MaxLog == 3
MaxLeaderLog == 2

\* ---- the cluster --------------------------------------------------------
Nodes == {"n1", "n2", "n3"}
CandidateIds == {"n1", "n2"}
None == "none"
Follower == "Follower"
Candidate == "Candidate"
Leader == "Leader"
NodeState == {Follower, Candidate, Leader}

VARIABLES
    current_term,   \* [Nodes -> Nat]          ConsensusEngine.current_term
    voted_for,      \* [Nodes -> ids or None]  ConsensusEngine.voted_for
    log,            \* [Nodes -> Seq(LogEntry)] ConsensusEngine.log
    commit_index,   \* [Nodes -> Nat]          ConsensusEngine.commit_index
    last_applied,   \* [Nodes -> Nat]          ConsensusEngine.last_applied
    state,          \* [Nodes -> NodeState]    ConsensusEngine.state
    peers,          \* [Nodes -> [peer -> PeerNode]] ConsensusEngine.peers
    leaderTerm,     \* transport: term of the sending leader
    leaderLog,      \* transport: the sending leader's log
    votesGranted,   \* history: <<voter, term, candidate>> of every granted vote
    last,           \* history: the last call, its arguments, result and pre-state
    pc,             \* [Threads -> place of the thread in the function it runs]
    frame,          \* [Threads -> arguments and locals of the call of the thread]
    locks,          \* [LockNames -> writer and readers of the RwLock]
    stable,         \* history: the fields when no handler was last inside
    seen,           \* history: [Threads -> statuses held during its get_status]
    request_log,    \* PacketInspector.request_log
    now,            \* the system clock of the inspector, seconds since the epoch
    admitted,       \* history: the times of the calls admitted within the window
    rate_last,      \* history: the last check_rate_limit, its result and pre-state
    active,         \* KernelInterceptor.active
    hook_trace,     \* history: the attach and detach calls made, with results
    users,          \* IdentityProvider.users
    sessions,       \* IdentityProvider.sessions
    wall,           \* the system clock of the provider: seconds and nanoseconds
    created,        \* history: the users create_user has returned Ok for
    issued,         \* history: the tokens authenticate has returned
    dead,           \* history: the tokens issued before a revocation of their user
    idp_last,       \* history: the last call on the provider and its result
    GLOBAL_ALLOCATED, \* memory_guard.rs: the static counter of allocated bytes
    regions,        \* [Threads -> sizes of the live MemoryRegions the thread owns]
    mem_pc,         \* [Threads -> place of the thread in new or resize]
    mem_frame,      \* [Threads -> arguments and locals of its call]
    mem_last        \* history: the last call on a MemoryRegion that returned

engine == <<current_term, voted_for, log, commit_index, last_applied, state, peers>>

threads == <<pc, frame, locks, stable, seen>>

inspector == <<request_log, now, admitted, rate_last>>

interceptor == <<active, hook_trace>>

provider == <<users, sessions, wall, created, issued, dead, idp_last>>

memory == <<GLOBAL_ALLOCATED, regions, mem_pc, mem_frame, mem_last>>

\* what lies outside the cluster of engines and its transport
outside == <<threads, inspector, interceptor, provider, memory>>

cluster == <<engine, leaderTerm, leaderLog, votesGranted, last>>

vars == <<current_term, voted_for, log, commit_index, last_applied, state,
          peers, leaderTerm, leaderLog, votesGranted, last, outside>>

\* ---- data ---------------------------------------------------------------
LogEntry(term, command, timestamp) ==
    [term |-> term, command |-> command, timestamp |-> timestamp]

PeerNode(pid) ==
    [id |-> pid, next_index |-> 0, match_index |-> 0]

LastTerm(l) == IF Len(l) = 0 THEN 0 ELSE l[Len(l)].term

NoCall ==
    [op |-> "new", node |-> None, term |-> 0, peer |-> None, index |-> 0,
     prev_term |-> 0, entries |-> <<>>, leader_commit |-> 0, ret |-> FALSE,
     pre_term |-> 0, pre_vote |-> None, pre_log |-> <<>>, pre_commit |-> 0,
     pre_state |-> Follower]

\* ---- ConsensusEngine::new -----------------------------------------------
\* a constructor that leaves the node a candidate of term 1 with its own vote
InitAsCandidate ==
    /\ current_term = [n \in Nodes |-> 1]
    /\ voted_for = [n \in Nodes |-> n]
    /\ log = [n \in Nodes |-> <<>>]
    /\ commit_index = [n \in Nodes |-> 0]
    /\ last_applied = [n \in Nodes |-> 0]
    /\ state = [n \in Nodes |-> Candidate]
    /\ peers = [n \in Nodes |-> [p \in Nodes \ {n} |-> PeerNode(p)]]
    /\ leaderTerm = 0
    /\ leaderLog = <<>>
    /\ votesGranted = {}
    /\ last = NoCall

\* l.43-66, once for each node of the cluster, its peers being the other nodes
Init ==
    /\ current_term = [n \in Nodes |-> 0]
    /\ voted_for = [n \in Nodes |-> None]
    /\ log = [n \in Nodes |-> <<>>]
    /\ commit_index = [n \in Nodes |-> 0]
    /\ last_applied = [n \in Nodes |-> 0]
    /\ state = [n \in Nodes |-> Follower]
    /\ peers = [n \in Nodes |-> [p \in Nodes \ {n} |-> PeerNode(p)]]
    /\ leaderTerm = 0
    /\ leaderLog = <<>>
    /\ votesGranted = {}
    /\ last = NoCall

\* ---- request_vote -------------------------------------------------------
\* a handler that forgets the vote it has cast
VoteAvailableAlways(vf, candidate_id) == TRUE

\* l.115: the vote is free or already given to this candidate
VoteAvailable(vf, candidate_id) ==
    vf = None \/ vf = candidate_id

\* a handler without the test for an older term
NeverStale(term, cur) == FALSE

\* a handler that adopts whatever term the request carries
AnyOtherTerm(term, cur) == term # cur

\* l.105: a request of a newer term is adopted
NewerTerm(term, cur) == term > cur

\* l.82, l.111: a request of an older term is refused
StaleTerm(term, cur) == term < cur

\* a handler that adopts the newer term but keeps the vote of the older one
RequestVoteKeepingVote(n, term, candidate_id, last_log_idx) ==
    LET adopt == NewerTerm(term, current_term[n])
        ct == IF adopt THEN term ELSE current_term[n]
        st == IF adopt THEN Follower ELSE state[n]
        vf == voted_for[n]
    IN  IF StaleTerm(term, ct)
        THEN [current_term |-> ct, state |-> st, voted_for |-> vf, ret |-> FALSE]
        ELSE IF VoteAvailable(vf, candidate_id)
        THEN [current_term |-> ct, state |-> st, voted_for |-> candidate_id, ret |-> TRUE]
        ELSE [current_term |-> ct, state |-> st, voted_for |-> vf, ret |-> FALSE]

\* a handler that takes a request of its own term for a newer one (>= at l.105)
RequestVoteClearingVote(n, term, candidate_id, last_log_idx) ==
    LET adopt == term >= current_term[n]
        ct == IF adopt THEN term ELSE current_term[n]
        st == IF adopt THEN Follower ELSE state[n]
        vf == IF adopt THEN None ELSE voted_for[n]
    IN  IF StaleTerm(term, ct)
        THEN [current_term |-> ct, state |-> st, voted_for |-> vf, ret |-> FALSE]
        ELSE IF VoteAvailable(vf, candidate_id)
        THEN [current_term |-> ct, state |-> st, voted_for |-> candidate_id, ret |-> TRUE]
        ELSE [current_term |-> ct, state |-> st, voted_for |-> vf, ret |-> FALSE]

\* l.101-121: the fields of the node after request_vote, and the value returned
RequestVoteResult(n, term, candidate_id, last_log_idx) ==
    LET adopt == NewerTerm(term, current_term[n])
        ct == IF adopt THEN term ELSE current_term[n]
        st == IF adopt THEN Follower ELSE state[n]
        vf == IF adopt THEN None ELSE voted_for[n]
    IN  IF StaleTerm(term, ct)
        THEN [current_term |-> ct, state |-> st, voted_for |-> vf, ret |-> FALSE]
        ELSE IF VoteAvailable(vf, candidate_id)
        THEN [current_term |-> ct, state |-> st, voted_for |-> candidate_id, ret |-> TRUE]
        ELSE [current_term |-> ct, state |-> st, voted_for |-> vf, ret |-> FALSE]

Called(op, n, term, peer, index, prev_term, entries, ret) ==
    [op |-> op, node |-> n, term |-> term, peer |-> peer, index |-> index,
     prev_term |-> prev_term, entries |-> entries, leader_commit |-> 0, ret |-> ret,
     pre_term |-> current_term[n], pre_vote |-> voted_for[n], pre_log |-> log[n],
     pre_commit |-> commit_index[n], pre_state |-> state[n]]

RequestVote(n, term, candidate_id, last_log_idx) ==
    LET r == RequestVoteResult(n, term, candidate_id, last_log_idx)
    IN  /\ current_term' = [current_term EXCEPT ![n] = r.current_term]
        /\ state' = [state EXCEPT ![n] = r.state]
        /\ voted_for' = [voted_for EXCEPT ![n] = r.voted_for]
        /\ votesGranted' = IF r.ret
                           THEN votesGranted \cup {<<n, r.current_term, candidate_id>>}
                           ELSE votesGranted
        /\ UNCHANGED <<log, commit_index, last_applied, peers, leaderTerm, leaderLog, outside>>

\* ---- append_entries -----------------------------------------------------
\* a handler that replaces the log by the request's entries
ExtendReplacing(l, entries) == entries

\* a handler that writes the request's entries over the log from index 1
ExtendOverwriting(l, entries) ==
    entries \o SubSeq(l, Len(entries) + 1, Len(l))

\* l.93: log.extend(entries)
Extend(l, entries) == l \o entries

\* a handler that stores the index after the last entry
NextLogIndex(l) == Len(l) + 1

\* l.96: commit_index.store(log.len())
NewCommitIndex(l) == Len(l)

\* a handler that stores the length of the request's entries, not of the log
AppendEntriesCommitBatch(n, term, leader_id, entries) ==
    IF StaleTerm(term, current_term[n])
    THEN [current_term |-> current_term[n], state |-> state[n],
          voted_for |-> voted_for[n], log |-> log[n],
          commit_index |-> commit_index[n], ret |-> FALSE]
    ELSE LET adopt == NewerTerm(term, current_term[n])
             l == Extend(log[n], entries)
         IN  [current_term |-> IF adopt THEN term ELSE current_term[n],
              state |-> IF adopt THEN Follower ELSE state[n],
              voted_for |-> IF adopt THEN None ELSE voted_for[n],
              log |-> l,
              commit_index |-> Len(entries),
              ret |-> TRUE]

\* a handler that extends the log before it looks at the term
AppendEntriesExtendingFirst(n, term, leader_id, entries) ==
    IF StaleTerm(term, current_term[n])
    THEN [current_term |-> current_term[n], state |-> state[n],
          voted_for |-> voted_for[n], log |-> Extend(log[n], entries),
          commit_index |-> commit_index[n], ret |-> FALSE]
    ELSE LET adopt == NewerTerm(term, current_term[n])
             l == Extend(log[n], entries)
         IN  [current_term |-> IF adopt THEN term ELSE current_term[n],
              state |-> IF adopt THEN Follower ELSE state[n],
              voted_for |-> IF adopt THEN None ELSE voted_for[n],
              log |-> l,
              commit_index |-> NewCommitIndex(l),
              ret |-> TRUE]

\* l.80-99: the fields of the node after append_entries, and the value returned
AppendEntriesResult(n, term, leader_id, entries) ==
    IF StaleTerm(term, current_term[n])
    THEN [current_term |-> current_term[n], state |-> state[n],
          voted_for |-> voted_for[n], log |-> log[n],
          commit_index |-> commit_index[n], ret |-> FALSE]
    ELSE LET adopt == NewerTerm(term, current_term[n])
             l == Extend(log[n], entries)
         IN  [current_term |-> IF adopt THEN term ELSE current_term[n],
              state |-> IF adopt THEN Follower ELSE state[n],
              voted_for |-> IF adopt THEN None ELSE voted_for[n],
              log |-> l,
              commit_index |-> NewCommitIndex(l),
              ret |-> TRUE]

AppendEntries(n, term, leader_id, entries) ==
    LET r == AppendEntriesResult(n, term, leader_id, entries)
    IN  /\ current_term' = [current_term EXCEPT ![n] = r.current_term]
        /\ state' = [state EXCEPT ![n] = r.state]
        /\ voted_for' = [voted_for EXCEPT ![n] = r.voted_for]
        /\ log' = [log EXCEPT ![n] = r.log]
        /\ commit_index' = [commit_index EXCEPT ![n] = r.commit_index]
        /\ UNCHANGED <<last_applied, peers, leaderTerm, leaderLog, votesGranted, outside>>

\* ---- replicate_log, get_status, start ----------------------------------
\* a replicate_log that moves next_index of every peer past the log
ReplicateLogAdvancing(n) ==
    /\ peers' = [peers EXCEPT ![n] =
                    [p \in DOMAIN @ |-> [@[p] EXCEPT !.next_index = Len(log[n]) + 1]]]
    /\ UNCHANGED <<current_term, voted_for, log, commit_index, last_applied, state,
                   leaderTerm, leaderLog, votesGranted, outside>>

\* l.123-134: returns at once unless Leader; the loop over the peers has an
\* empty body, so nothing is sent and no field is written in any role.
ReplicateLog(n) ==
    UNCHANGED <<engine, leaderTerm, leaderLog, votesGranted, outside>>

\* l.136-143: reads state, current_term and the length of the log
GetStatus(n) ==
    UNCHANGED <<engine, leaderTerm, leaderLog, votesGranted, outside>>

\* l.68-78: spawns a thread that only sleeps; the two clones are never used
Start(n) ==
    UNCHANGED <<engine, leaderTerm, leaderLog, votesGranted, outside>>

\* ---- the transport ------------------------------------------------------
\* a new leader is elected: the sending side moves to the next term
LeaderElected(maxTerm) ==
    /\ leaderTerm < maxTerm
    /\ leaderTerm' = leaderTerm + 1
    /\ UNCHANGED <<engine, leaderLog, votesGranted, last, outside>>

\* the leader takes a client command into its log
ClientSubmit(maxLeaderLog) ==
    /\ leaderTerm >= 1
    /\ Len(leaderLog) < maxLeaderLog
    /\ leaderLog' = Append(leaderLog,
                           LogEntry(leaderTerm, Len(leaderLog) + 1, Len(leaderLog) + 1))
    /\ UNCHANGED <<engine, leaderTerm, votesGranted, last, outside>>

PrevTerm(i) == IF i = 0 THEN 0 ELSE leaderLog[i].term

\* The AppendEntries requests the leader has sent by now: in `term`, with the
\* entries prev_log_index+1..j of its log, none newer than the term they were
\* sent in.  Any of them may be delivered at any time, any number of times.
Sent ==
    {[term |-> t, prev_log_index |-> i, prev_log_term |-> PrevTerm(i),
      entries |-> SubSeq(leaderLog, i + 1, j)] :
        <<t, i, j>> \in {x \in (1..leaderTerm) \X (0..Len(leaderLog)) \X (0..Len(leaderLog)) :
                            /\ x[2] <= x[3]
                            /\ \A k \in 1..x[3] : leaderLog[k].term <= x[1]}}

\* ---- the threads that call into one engine --------------------------------
Observed == "n1"
Threads == {"t1", "t2"}
LockNames == {"current_term", "voted_for", "log", "state", "peers"}

\* the fields of the observed engine that the handlers write
Mem ==
    [current_term |-> current_term[Observed], voted_for |-> voted_for[Observed],
     state |-> state[Observed], log |-> log[Observed],
     commit_index |-> commit_index[Observed]]

\* l.141-142: what get_status reports of the fields m
Status(m) == <<m.state, m.current_term, Len(m.log)>>

NoFrame ==
    [op |-> "none", term |-> 0, peer |-> None, entries |-> <<>>, ret |-> FALSE,
     expect |-> <<>>, post |-> <<>>, report |-> <<>>]

\* no thread is inside a call when the engine has just been built
InitThreads ==
    /\ pc = [t \in Threads |-> "idle"]
    /\ frame = [t \in Threads |-> NoFrame]
    /\ locks = [l \in LockNames |-> [writer |-> None, readers |-> {}]]
    /\ stable = [current_term |-> 0, voted_for |-> None, state |-> Follower,
                 log |-> <<>>, commit_index |-> 0]
    /\ seen = [t \in Threads |-> {}]

\* ---- PacketInspector::new, KernelInterceptor::new -------------------------
\* the clock reads a time of our days, far above the 60 s of the window
StartClock == 60

\* packet_filter.rs l.32-35: an empty request log
InitInspector ==
    /\ request_log = <<>>
    /\ now = StartClock
    /\ admitted = <<>>
    /\ rate_last = [ret |-> FALSE, calls |-> 0, at |-> 0, before |-> 0, pre_log |-> <<>>]

\* kernel_hook.rs l.45-52: inactive
InitInterceptor ==
    /\ active = FALSE
    /\ hook_trace = <<>>

\* ---- IdentityProvider::new ------------------------------------------------
Permission ==
    {"ReadFiles", "WriteFiles", "ExecuteNetwork", "ManageUsers", "AccessVault",
     "AuditLogs"}

\* identity_provider.rs l.58-72: the roles map, which nothing writes after new
Roles ==
    [admin |-> [name |-> "Administrator",
                permissions |-> {"ReadFiles", "WriteFiles", "ExecuteNetwork",
                                 "ManageUsers", "AccessVault"}]]

\* identity_provider.rs l.48-53: no user, no session
InitProvider ==
    /\ users = <<>>
    /\ sessions = <<>>
    /\ wall = [sec |-> StartClock, ns |-> 0]
    /\ created = {}
    /\ issued = {}
    /\ dead = {}
    /\ idp_last = [op |-> "new"]

\* ---- memory_guard.rs ------------------------------------------------------
\* l.5: GLOBAL_ALLOCATED starts at 0; no region exists and no call is running
NoMemFrame == [op |-> "none", size |-> 0, current_usage |-> 0, region |-> 0]

InitMemory ==
    /\ GLOBAL_ALLOCATED = 0
    /\ regions = [t \in Threads |-> <<>>]
    /\ mem_pc = [t \in Threads |-> "idle"]
    /\ mem_frame = [t \in Threads |-> NoMemFrame]
    /\ mem_last = [thread |-> None, op |-> "none", ret |-> FALSE]

\* the process once every component has been constructed
Constructed ==
    /\ Init
    /\ InitThreads
    /\ InitInspector
    /\ InitInterceptor
    /\ InitProvider
    /\ InitMemory

\* ---- one node under the transport, every call recorded -------------------

NodeRequestVote ==
    \E term \in 0..MaxTerm, c \in CandidateIds, idx \in 0..MaxLog :
        /\ RequestVote(Observed, term, c, idx)
        /\ last' = Called("request_vote", Observed, term, c, idx, 0, <<>>,
                          RequestVoteResult(Observed, term, c, idx).ret)

\* prev_log_index, prev_log_term and leader_commit travel with the request,
\* but the handler has no parameter for them (l.80): they are recorded, not
\* passed.  The leader's commit index was at most its last index when it sent.
NodeAppendEntries ==
    \E m \in Sent : \E lc \in 0..(m.prev_log_index + Len(m.entries)) :
        /\ Len(log[Observed]) + Len(m.entries) <= MaxLog
        /\ AppendEntries(Observed, m.term, "leader", m.entries)
        /\ last' = [Called("append_entries", Observed, m.term, "leader",
                           m.prev_log_index, m.prev_log_term, m.entries,
                           AppendEntriesResult(Observed, m.term, "leader", m.entries).ret)
                        EXCEPT !.leader_commit = lc]

\* The calls that return no bool leave ret FALSE in the record.
NodeReplicateLog ==
    /\ ReplicateLog(Observed)
    /\ last' = Called("replicate_log", Observed, 0, None, 0, 0, <<>>, FALSE)

NodeGetStatus ==
    /\ GetStatus(Observed)
    /\ last' = Called("get_status", Observed, 0, None, 0, 0, <<>>, FALSE)

NodeStart ==
    /\ Start(Observed)
    /\ last' = Called("start", Observed, 0, None, 0, 0, <<>>, FALSE)

Next ==
    \/ NodeRequestVote
    \/ NodeAppendEntries
    \/ NodeReplicateLog
    \/ NodeGetStatus
    \/ NodeStart
    \/ LeaderElected(MaxTerm)
    \/ ClientSubmit(MaxLeaderLog)

Spec == Constructed /\ [][Next]_vars

\* The same node with its calls never starved: the thread of start keeps
\* running and the transport keeps delivering.
Fairness ==
    /\ WF_vars(NodeRequestVote)
    /\ WF_vars(NodeAppendEntries)
    /\ WF_vars(NodeReplicateLog)
    /\ WF_vars(NodeGetStatus)
    /\ WF_vars(NodeStart)

SpecLive == Constructed /\ [][Next]_vars /\ Fairness

\* ---- the node with the election of spec 4.2 -------------------------------
\* No function of the file makes a node Candidate or Leader.  The two steps
\* below are the election as section 4.2 of the specification describes it,
\* so that the functions of the file are also called on a Candidate and on
\* a Leader.  The votes of the peers are not modelled: a Candidate may win.
ElectionTimeout ==
    /\ state[Observed] \in {Follower, Candidate}
    /\ current_term[Observed] < MaxTerm
    /\ current_term' = [current_term EXCEPT ![Observed] = @ + 1]
    /\ state' = [state EXCEPT ![Observed] = Candidate]
    /\ voted_for' = [voted_for EXCEPT ![Observed] = Observed]
    /\ last' = Called("election_timeout", Observed, 0, None, 0, 0, <<>>, FALSE)
    /\ UNCHANGED <<log, commit_index, last_applied, peers,
                   leaderTerm, leaderLog, votesGranted, outside>>

BecomeLeader ==
    /\ state[Observed] = Candidate
    /\ state' = [state EXCEPT ![Observed] = Leader]
    /\ peers' = [peers EXCEPT ![Observed] =
                    [p \in DOMAIN @ |-> [@[p] EXCEPT !.next_index = Len(log[Observed]) + 1,
                                                     !.match_index = 0]]]
    /\ last' = Called("become_leader", Observed, 0, None, 0, 0, <<>>, FALSE)
    /\ UNCHANGED <<current_term, voted_for, log, commit_index, last_applied,
                   leaderTerm, leaderLog, votesGranted, outside>>

\* append_entries with any term and no or one entry (l.80)
ElectionAppendEntries ==
    \E term \in 0..MaxTerm, k \in 0..1 :
        LET entries == IF k = 1 THEN <<LogEntry(term, 1, 1)>> ELSE <<>>
        IN  /\ Len(log[Observed]) + k <= MaxLog
            /\ AppendEntries(Observed, term, "leader", entries)
            /\ last' = Called("append_entries", Observed, term, "leader", 0, 0, entries,
                              AppendEntriesResult(Observed, term, "leader", entries).ret)

NextElection ==
    \/ NodeRequestVote
    \/ ElectionAppendEntries
    \/ NodeReplicateLog
    \/ NodeGetStatus
    \/ NodeStart
    \/ ElectionTimeout
    \/ BecomeLeader

SpecElection == Constructed /\ [][NextElection]_vars

\* ---- the cluster under the transport ------------------------------------
ClusterMaxTerm == 2
ClusterMaxLog == 1

ClusterRequestVote ==
    \E n \in Nodes, term \in 1..ClusterMaxTerm, c \in CandidateIds, idx \in 0..ClusterMaxLog :
        /\ RequestVote(n, term, c, idx)
        /\ UNCHANGED last

ClusterAppendEntries ==
    \E n \in Nodes, m \in Sent :
        /\ Len(log[n]) + Len(m.entries) <= ClusterMaxLog
        /\ AppendEntries(n, m.term, "leader", m.entries)
        /\ UNCHANGED last

NextCluster ==
    \/ ClusterRequestVote
    \/ ClusterAppendEntries
    \/ LeaderElected(ClusterMaxTerm)
    \/ ClientSubmit(MaxLeaderLog)

SpecCluster == Constructed /\ [][NextCluster]_vars

\* ---- Scenario A: a 3-node cluster, node 1 stands for election in term 1 --
\* Every node has been started; the only vote requests are those of candidate
\* n1 for term 1, delivered to any node, n1 included, with any last log index;
\* replicate_log and get_status are called on any node.  Nothing is starved.
ScenarioStart ==
    \E n \in Nodes :
        /\ Start(n)
        /\ last' = Called("start", n, 0, None, 0, 0, <<>>, FALSE)

ScenarioRequestVote ==
    \E n \in Nodes, idx \in 0..MaxLog :
        /\ RequestVote(n, 1, "n1", idx)
        /\ last' = Called("request_vote", n, 1, "n1", idx, 0, <<>>,
                          RequestVoteResult(n, 1, "n1", idx).ret)

ScenarioReplicateLog ==
    \E n \in Nodes :
        /\ ReplicateLog(n)
        /\ last' = Called("replicate_log", n, 0, None, 0, 0, <<>>, FALSE)

ScenarioGetStatus ==
    \E n \in Nodes :
        /\ GetStatus(n)
        /\ last' = Called("get_status", n, 0, None, 0, 0, <<>>, FALSE)

NextScenarioA ==
    \/ ScenarioStart
    \/ ScenarioRequestVote
    \/ ScenarioReplicateLog
    \/ ScenarioGetStatus

SpecScenarioA ==
    /\ Constructed
    /\ [][NextScenarioA]_vars
    /\ WF_vars(ScenarioStart)
    /\ WF_vars(ScenarioRequestVote)
    /\ WF_vars(ScenarioReplicateLog)
    /\ WF_vars(ScenarioGetStatus)

\* ---- the functions of one engine, statement by statement ------------------
\* Threads call request_vote, append_entries, get_status and replicate_log on
\* the observed engine at once.  A step is one statement; a statement that
\* takes a lock waits until the lock can be taken.  A guard bound by `let`
\* is held until the function returns, a temporary guard until its statement
\* ends.
ThreadMaxTerm == 2
ThreadMaxLog == 2

\* RwLock::write: no writer and no reader holds the lock
CanWrite(l) == locks[l].writer = None /\ locks[l].readers = {}

\* RwLock::read: no writer holds the lock
CanRead(l) == locks[l].writer = None

WriteLocked(lk, l, t) == [lk EXCEPT ![l].writer = t]
ReadLocked(lk, l, t) == [lk EXCEPT ![l].readers = @ \cup {t}]
Unlocked(lk, l, t) ==
    [lk EXCEPT ![l] = [writer |-> IF @.writer = t THEN None ELSE @.writer,
                       readers |-> @.readers \ {t}]]

\* every handler holds the write lock of current_term from its first
\* statement to its return: the fields are between two calls when it is free
Quiet(lk) == lk["current_term"].writer = None

InStatus(p) == p \in {"gs_state", "gs_term", "gs_log", "gs_format", "gs_ret"}

\* the history kept by every step: the fields as the last handler left them,
\* and for a get_status in progress the statuses the engine has held since
Watch ==
    /\ stable' = IF Quiet(locks') THEN Mem' ELSE stable
    /\ seen' = [u \in Threads |->
                   IF ~InStatus(pc'[u]) THEN {}
                   ELSE IF pc'[u] = "gs_ret" /\ pc[u] = "gs_ret" THEN seen[u]
                   ELSE seen[u] \cup {Status(stable')}]

Elsewhere == <<last_applied, peers, leaderTerm, leaderLog, votesGranted, last,
               inspector, interceptor, provider, memory>>

\* what a handler that ran alone from the present fields would leave and return
Expected(r) ==
    [mem |-> [current_term |-> r.current_term, voted_for |-> r.voted_for,
              state |-> r.state,
              log |-> IF "log" \in DOMAIN r THEN r.log ELSE log[Observed],
              commit_index |-> IF "commit_index" \in DOMAIN r THEN r.commit_index
                               ELSE commit_index[Observed]],
     ret |-> r.ret]

\* -- request_vote
\* l.101: a thread calls request_vote(term, candidate_id, last_log_idx)
RvCall(t) ==
    \E term \in 0..ThreadMaxTerm, c \in CandidateIds :
        /\ pc[t] = "idle"
        /\ frame' = [frame EXCEPT ![t] =
                        [NoFrame EXCEPT !.op = "request_vote", !.term = term, !.peer = c]]
        /\ pc' = [pc EXCEPT ![t] = "rv_term"]
        /\ UNCHANGED <<engine, locks, Elsewhere>>
        /\ Watch

\* l.102: current_term.write()
RvTerm(t) ==
    /\ pc[t] = "rv_term"
    /\ CanWrite("current_term")
    /\ locks' = WriteLocked(locks, "current_term", t)
    /\ frame' = [frame EXCEPT ![t].expect =
                    Expected(RequestVoteResult(Observed, frame[t].term, frame[t].peer, 0))]
    /\ pc' = [pc EXCEPT ![t] = "rv_vote"]
    /\ UNCHANGED <<engine, Elsewhere>>
    /\ Watch

\* l.103: voted_for.write()
RvVote(t) ==
    /\ pc[t] = "rv_vote"
    /\ CanWrite("voted_for")
    /\ locks' = WriteLocked(locks, "voted_for", t)
    /\ pc' = [pc EXCEPT ![t] = "rv_adopt"]
    /\ UNCHANGED <<engine, frame, Elsewhere>>
    /\ Watch

\* l.105-106: a newer term is stored
RvAdopt(t) ==
    /\ pc[t] = "rv_adopt"
    /\ IF NewerTerm(frame[t].term, current_term[Observed])
       THEN /\ current_term' = [current_term EXCEPT ![Observed] = frame[t].term]
            /\ pc' = [pc EXCEPT ![t] = "rv_state"]
       ELSE /\ pc' = [pc EXCEPT ![t] = "rv_decide"]
            /\ UNCHANGED current_term
    /\ UNCHANGED <<voted_for, log, commit_index, state, frame, locks, Elsewhere>>
    /\ Watch

\* l.107: *self.state.write() = Follower, the guard a temporary
RvState(t) ==
    /\ pc[t] = "rv_state"
    /\ CanWrite("state")
    /\ state' = [state EXCEPT ![Observed] = Follower]
    /\ pc' = [pc EXCEPT ![t] = "rv_clear"]
    /\ UNCHANGED <<current_term, voted_for, log, commit_index, frame, locks, Elsewhere>>
    /\ Watch

\* l.108: *voted_for = None
RvClear(t) ==
    /\ pc[t] = "rv_clear"
    /\ voted_for' = [voted_for EXCEPT ![Observed] = None]
    /\ pc' = [pc EXCEPT ![t] = "rv_decide"]
    /\ UNCHANGED <<current_term, log, commit_index, state, frame, locks, Elsewhere>>
    /\ Watch

\* l.111-120: the decision and the return, which drops both guards
RvDecide(t) ==
    LET grant == /\ ~StaleTerm(frame[t].term, current_term[Observed])
                 /\ VoteAvailable(voted_for[Observed], frame[t].peer)
    IN  /\ pc[t] = "rv_decide"
        /\ voted_for' = IF grant THEN [voted_for EXCEPT ![Observed] = frame[t].peer]
                                 ELSE voted_for
        /\ locks' = Unlocked(Unlocked(locks, "voted_for", t), "current_term", t)
        /\ UNCHANGED <<current_term, log, commit_index, state, Elsewhere>>
        /\ frame' = [frame EXCEPT ![t].ret = grant, ![t].post = Mem']
        /\ pc' = [pc EXCEPT ![t] = "ret"]
        /\ Watch

\* -- append_entries
\* l.80: a thread calls append_entries(term, leader_id, entries)
AeCall(t) ==
    \E term \in 0..ThreadMaxTerm, n \in 0..1 :
        /\ pc[t] = "idle"
        /\ Len(log[Observed]) + n <= ThreadMaxLog
        /\ frame' = [frame EXCEPT ![t] =
                        [NoFrame EXCEPT !.op = "append_entries", !.term = term,
                                        !.peer = "leader",
                                        !.entries = IF n = 0 THEN <<>>
                                                    ELSE <<LogEntry(term, 1, 1)>>]]
        /\ pc' = [pc EXCEPT ![t] = "ae_term"]
        /\ UNCHANGED <<engine, locks, Elsewhere>>
        /\ Watch

\* a handler whose guard of current_term is a temporary, dropped at once
AeTermBriefly(t) ==
    /\ pc[t] = "ae_term"
    /\ CanWrite("current_term")
    /\ locks' = locks
    /\ frame' = [frame EXCEPT ![t].expect =
                    Expected(AppendEntriesResult(Observed, frame[t].term, "leader",
                                                 frame[t].entries))]
    /\ pc' = [pc EXCEPT ![t] = "ae_check"]
    /\ UNCHANGED <<engine, Elsewhere>>
    /\ Watch

\* l.81: current_term.write()
AeTerm(t) ==
    /\ pc[t] = "ae_term"
    /\ CanWrite("current_term")
    /\ locks' = WriteLocked(locks, "current_term", t)
    /\ frame' = [frame EXCEPT ![t].expect =
                    Expected(AppendEntriesResult(Observed, frame[t].term, "leader",
                                                 frame[t].entries))]
    /\ pc' = [pc EXCEPT ![t] = "ae_check"]
    /\ UNCHANGED <<engine, Elsewhere>>
    /\ Watch

\* l.82-87: an older term returns false; a newer term is stored
AeCheck(t) ==
    /\ pc[t] = "ae_check"
    /\ IF StaleTerm(frame[t].term, current_term[Observed])
       THEN /\ locks' = Unlocked(locks, "current_term", t)
            /\ frame' = [frame EXCEPT ![t].ret = FALSE, ![t].post = Mem]
            /\ pc' = [pc EXCEPT ![t] = "ret"]
            /\ UNCHANGED current_term
       ELSE IF NewerTerm(frame[t].term, current_term[Observed])
       THEN /\ current_term' = [current_term EXCEPT ![Observed] = frame[t].term]
            /\ pc' = [pc EXCEPT ![t] = "ae_state"]
            /\ UNCHANGED <<locks, frame>>
       ELSE /\ pc' = [pc EXCEPT ![t] = "ae_log"]
            /\ UNCHANGED <<current_term, locks, frame>>
    /\ UNCHANGED <<voted_for, log, commit_index, state, Elsewhere>>
    /\ Watch

\* l.88: *self.state.write() = Follower, the guard a temporary
AeState(t) ==
    /\ pc[t] = "ae_state"
    /\ CanWrite("state")
    /\ state' = [state EXCEPT ![Observed] = Follower]
    /\ pc' = [pc EXCEPT ![t] = "ae_vote"]
    /\ UNCHANGED <<current_term, voted_for, log, commit_index, frame, locks, Elsewhere>>
    /\ Watch

\* l.89: *self.voted_for.write() = None, the guard a temporary
AeVote(t) ==
    /\ pc[t] = "ae_vote"
    /\ CanWrite("voted_for")
    /\ voted_for' = [voted_for EXCEPT ![Observed] = None]
    /\ pc' = [pc EXCEPT ![t] = "ae_log"]
    /\ UNCHANGED <<current_term, log, commit_index, state, frame, locks, Elsewhere>>
    /\ Watch

\* l.92: log.write()
AeLog(t) ==
    /\ pc[t] = "ae_log"
    /\ CanWrite("log")
    /\ locks' = WriteLocked(locks, "log", t)
    /\ pc' = [pc EXCEPT ![t] = "ae_extend"]
    /\ UNCHANGED <<engine, frame, Elsewhere>>
    /\ Watch

\* l.93: log.extend(entries)
AeExtend(t) ==
    /\ pc[t] = "ae_extend"
    /\ log' = [log EXCEPT ![Observed] = Extend(@, frame[t].entries)]
    /\ pc' = [pc EXCEPT ![t] = "ae_commit"]
    /\ UNCHANGED <<current_term, voted_for, commit_index, state, frame, locks, Elsewhere>>
    /\ Watch

\* l.96-98: commit_index.store(log.len()), and the return drops both guards
AeCommit(t) ==
    /\ pc[t] = "ae_commit"
    /\ commit_index' = [commit_index EXCEPT ![Observed] = NewCommitIndex(log[Observed])]
    /\ locks' = Unlocked(Unlocked(locks, "log", t), "current_term", t)
    /\ UNCHANGED <<current_term, voted_for, log, state, Elsewhere>>
    /\ frame' = [frame EXCEPT ![t].ret = TRUE, ![t].post = Mem']
    /\ pc' = [pc EXCEPT ![t] = "ret"]
    /\ Watch

\* -- get_status
\* l.136: a thread calls get_status()
GsCall(t) ==
    /\ pc[t] = "idle"
    /\ frame' = [frame EXCEPT ![t] = [NoFrame EXCEPT !.op = "get_status"]]
    /\ pc' = [pc EXCEPT ![t] = "gs_state"]
    /\ UNCHANGED <<engine, locks, Elsewhere>>
    /\ Watch

\* l.137: state.read()
GsState(t) ==
    /\ pc[t] = "gs_state"
    /\ CanRead("state")
    /\ locks' = ReadLocked(locks, "state", t)
    /\ pc' = [pc EXCEPT ![t] = "gs_term"]
    /\ UNCHANGED <<engine, frame, Elsewhere>>
    /\ Watch

\* a get_status whose guard of current_term is a temporary, dropped at once
GsTermBriefly(t) ==
    /\ pc[t] = "gs_term"
    /\ locks' = locks
    /\ pc' = [pc EXCEPT ![t] = "gs_log"]
    /\ UNCHANGED <<engine, frame, Elsewhere>>
    /\ Watch

\* l.138: current_term.read()
GsTerm(t) ==
    /\ pc[t] = "gs_term"
    /\ CanRead("current_term")
    /\ locks' = ReadLocked(locks, "current_term", t)
    /\ pc' = [pc EXCEPT ![t] = "gs_log"]
    /\ UNCHANGED <<engine, frame, Elsewhere>>
    /\ Watch

\* l.139: log.read().len(), the guard a temporary
GsLog(t) ==
    /\ pc[t] = "gs_log"
    /\ CanRead("log")
    /\ frame' = [frame EXCEPT ![t].report = <<Len(log[Observed])>>]
    /\ pc' = [pc EXCEPT ![t] = "gs_format"]
    /\ UNCHANGED <<engine, locks, Elsewhere>>
    /\ Watch

\* l.141-143: state and term are read through their guards, which the
\* return drops
GsFormat(t) ==
    /\ pc[t] = "gs_format"
    /\ frame' = [frame EXCEPT ![t].report =
                    <<state[Observed], current_term[Observed], frame[t].report[1]>>]
    /\ locks' = Unlocked(Unlocked(locks, "current_term", t), "state", t)
    /\ pc' = [pc EXCEPT ![t] = "gs_ret"]
    /\ UNCHANGED <<engine, Elsewhere>>
    /\ Watch

\* -- replicate_log
\* l.123: a thread calls replicate_log()
RlCall(t) ==
    /\ pc[t] = "idle"
    /\ frame' = [frame EXCEPT ![t] = [NoFrame EXCEPT !.op = "replicate_log"]]
    /\ pc' = [pc EXCEPT ![t] = "rl_state"]
    /\ UNCHANGED <<engine, locks, Elsewhere>>
    /\ Watch

\* l.124: state.read()
RlState(t) ==
    /\ pc[t] = "rl_state"
    /\ CanRead("state")
    /\ locks' = ReadLocked(locks, "state", t)
    /\ pc' = [pc EXCEPT ![t] = "rl_check"]
    /\ UNCHANGED <<engine, frame, Elsewhere>>
    /\ Watch

\* l.125-134: returns unless Leader; a Leader reads the peers and sends nothing
RlCheck(t) ==
    /\ pc[t] = "rl_check"
    /\ state[Observed] = Leader => CanRead("peers")
    /\ locks' = Unlocked(locks, "state", t)
    /\ pc' = [pc EXCEPT ![t] = "ret"]
    /\ UNCHANGED <<engine, frame, Elsewhere>>
    /\ Watch

\* the call has returned and the thread is free for the next one
Return(t) ==
    /\ pc[t] \in {"ret", "gs_ret"}
    /\ pc' = [pc EXCEPT ![t] = "idle"]
    /\ frame' = [frame EXCEPT ![t] = NoFrame]
    /\ UNCHANGED <<engine, locks, Elsewhere>>
    /\ Watch

NextThreads ==
    \/ \E t \in Threads : RvCall(t)
    \/ \E t \in Threads : RvTerm(t)
    \/ \E t \in Threads : RvVote(t)
    \/ \E t \in Threads : RvAdopt(t)
    \/ \E t \in Threads : RvState(t)
    \/ \E t \in Threads : RvClear(t)
    \/ \E t \in Threads : RvDecide(t)
    \/ \E t \in Threads : AeCall(t)
    \/ \E t \in Threads : AeTerm(t)
    \/ \E t \in Threads : AeCheck(t)
    \/ \E t \in Threads : AeState(t)
    \/ \E t \in Threads : AeVote(t)
    \/ \E t \in Threads : AeLog(t)
    \/ \E t \in Threads : AeExtend(t)
    \/ \E t \in Threads : AeCommit(t)
    \/ \E t \in Threads : GsCall(t)
    \/ \E t \in Threads : GsState(t)
    \/ \E t \in Threads : GsTerm(t)
    \/ \E t \in Threads : GsLog(t)
    \/ \E t \in Threads : GsFormat(t)
    \/ \E t \in Threads : RlCall(t)
    \/ \E t \in Threads : RlState(t)
    \/ \E t \in Threads : RlCheck(t)
    \/ \E t \in Threads : Return(t)

SpecThreads == Constructed /\ [][NextThreads]_vars

\* ---- PacketInspector::check_rate_limit -----------------------------------
MAX_REQUESTS_PER_MINUTE == 60
Window == 60
MaxClock == 180

\* the clock is read in whole seconds; between two calls it stands still or
\* moves on by half a window or a whole one
ClockSteps == {Window \div 2, Window}

\* the timestamps of l that are newer than `Window` seconds at time t
Retained(l, t) == SelectSeq(l, LAMBDA ts : ts > t - Window)

\* a limiter that lets the request through when the log is just full
LimitExceeded(n) == n > MAX_REQUESTS_PER_MINUTE

\* l.100: log.len() as u32 >= MAX_REQUESTS_PER_MINUTE
LimitReached(n) == n >= MAX_REQUESTS_PER_MINUTE

\* a limiter that records the request it rejects
CheckRateLimitRecording ==
    LET pruned == Retained(request_log, now)
        full == LimitReached(Len(pruned))
    IN  /\ request_log' = Append(pruned, now)
        /\ admitted' = IF full THEN Retained(admitted, now)
                       ELSE Append(Retained(admitted, now), now)
        /\ rate_last' = [ret |-> ~full, calls |-> 1, at |-> now,
                         before |-> Len(Retained(admitted, now)),
                         pre_log |-> request_log]
        /\ UNCHANGED <<now, cluster, threads, memory, interceptor, provider>>

\* l.89-106: prune, test, push.  now - 60 does not underflow: now >= StartClock.
CheckRateLimit ==
    LET pruned == Retained(request_log, now)
        full == LimitReached(Len(pruned))
    IN  /\ request_log' = IF full THEN pruned ELSE Append(pruned, now)
        /\ admitted' = IF full THEN Retained(admitted, now)
                       ELSE Append(Retained(admitted, now), now)
        /\ rate_last' = [ret |-> ~full, calls |-> 1, at |-> now,
                         before |-> Len(Retained(admitted, now)),
                         pre_log |-> request_log]
        /\ UNCHANGED <<now, cluster, threads, memory, interceptor, provider>>

\* time passes between two calls
ClockTick ==
    \E d \in ClockSteps :
        /\ now + d <= MaxClock
        /\ now' = now + d
        /\ UNCHANGED <<request_log, admitted, rate_last, cluster, threads, memory,
                       interceptor, provider>>

NextInspector ==
    \/ CheckRateLimit
    \/ ClockTick

SpecInspector == Constructed /\ [][NextInspector]_vars

\* ---- KernelInterceptor::attach, detach ------------------------------------
MaxHookCalls == 6

HookCall(op, ok, before, after) ==
    [op |-> op, ok |-> ok, before |-> before, after |-> after]

\* an attach that does not look at the flag
AttachResultAlways(a) == [ok |-> TRUE, active |-> TRUE]

\* kernel_hook.rs l.54-63: Err when active, else active is stored true
AttachResult(a) ==
    IF a THEN [ok |-> FALSE, active |-> a] ELSE [ok |-> TRUE, active |-> TRUE]

\* kernel_hook.rs l.65-71: Err when not active, else active is stored false
DetachResult(a) ==
    IF ~a THEN [ok |-> FALSE, active |-> a] ELSE [ok |-> TRUE, active |-> FALSE]

Attach ==
    LET r == AttachResult(active)
    IN  /\ Len(hook_trace) < MaxHookCalls
        /\ active' = r.active
        /\ hook_trace' = Append(hook_trace, HookCall("attach", r.ok, active, r.active))
        /\ UNCHANGED <<cluster, threads, memory, inspector, provider>>

Detach ==
    LET r == DetachResult(active)
    IN  /\ Len(hook_trace) < MaxHookCalls
        /\ active' = r.active
        /\ hook_trace' = Append(hook_trace, HookCall("detach", r.ok, active, r.active))
        /\ UNCHANGED <<cluster, threads, memory, inspector, provider>>

NextInterceptor ==
    \/ Attach
    \/ Detach

SpecInterceptor == Constructed /\ [][NextInterceptor]_vars

\* ---- IdentityProvider -----------------------------------------------------
TOKEN_VALIDITY_SEC == 3600
MaxNs == 1
MaxElapsed == 3601
MaxIssued == 2
MaxCreated == 2

Usernames == {"alice", "bob"}
\* passwords as strings of characters: that of the users, another of its
\* length, and a shorter one
Passwords == {<<"s", "1">>, <<"s", "2">>, <<"s">>}
RoleLists == {<<"admin">>, <<"guest">>}

\* l.165-167: the clock reading in nanoseconds
UuidSim(w) == <<w.sec, w.ns>>

\* l.160: format!("hash_sha256_{}", raw.len())
HashPassword(raw) == <<"hash_sha256_", Len(raw)>>

\* l.80: format!("USR-{}", uuid_sim())
UserId(w) == <<"USR-", UuidSim(w)>>

\* l.116: format!("tkn_{}_{}", user.id, uuid_sim())
TokenStr(user_id, w) == <<"tkn_", user_id, UuidSim(w)>>

\* HashMap::insert: the value of an existing key is replaced
Put(m, k, v) == [x \in (DOMAIN m) \cup {k} |-> IF x = k THEN v ELSE m[x]]

\* HashMap::retain (l.155): the entries of m that belong to another user
RetainOthers(m, user_id) ==
    [x \in {k \in DOMAIN m : m[k].user_id # user_id} |-> m[x]]

\* l.119-128: the permissions of the roles of the list that the roles map knows
EffectivePerms(role_names) ==
    UNION {Roles[r].permissions :
              r \in {role_names[i] : i \in 1..Len(role_names)} \cap DOMAIN Roles}

\* l.74-94
CreateUser(username, password, role_names) ==
    IF \E id \in DOMAIN users : users[id].username = username
    THEN /\ idp_last' = [op |-> "create_user"]
         /\ UNCHANGED <<users, sessions, wall, created, issued, dead>>
    ELSE LET user_id == UserId(wall)
         IN  /\ users' = Put(users, user_id,
                             [id |-> user_id, username |-> username,
                              password_hash |-> HashPassword(password),
                              roles |-> role_names, locked |-> FALSE])
             /\ created' = created \cup {[id |-> user_id, username |-> username,
                                          password |-> password, roles |-> role_names]}
             /\ idp_last' = [op |-> "create_user"]
             /\ UNCHANGED <<sessions, wall, issued, dead>>

\* l.106-109
PasswordRejected(user, password) == user.password_hash # HashPassword(password)

\* l.96-139: authenticate, with generate_session
Authenticate(username, password) ==
    LET found == {id \in DOMAIN users : users[id].username = username}
        refused == /\ idp_last' = [op |-> "authenticate", username |-> username,
                                   password |-> password, ok |-> FALSE]
                   /\ UNCHANGED <<users, sessions, wall, created, issued, dead>>
    IN  IF found = {} THEN refused
        ELSE \E id \in found :
                LET user == users[id]
                    token == TokenStr(user.id, wall)
                IN  IF user.locked \/ PasswordRejected(user, password) THEN refused
                    ELSE /\ Cardinality(issued) < MaxIssued
                         /\ sessions' = Put(sessions, token,
                                            [token |-> token, user_id |-> user.id,
                                             expires_at |-> wall.sec + TOKEN_VALIDITY_SEC,
                                             scope |-> EffectivePerms(user.roles)])
                         /\ issued' = issued \cup {[token |-> token, user_id |-> user.id,
                                                    username |-> username,
                                                    roles |-> user.roles,
                                                    at |-> wall.sec]}
                         /\ idp_last' = [op |-> "authenticate", username |-> username,
                                         password |-> password, ok |-> TRUE,
                                         token |-> token]
                         /\ UNCHANGED <<users, wall, created, dead>>

\* l.141-151
ValidateTokenResult(token, required_perm) ==
    IF token \in DOMAIN sessions
    THEN IF wall.sec > sessions[token].expires_at THEN FALSE
         ELSE required_perm \in sessions[token].scope
    ELSE FALSE

ValidateToken(token, required_perm) ==
    /\ idp_last' = [op |-> "validate_token", token |-> token, perm |-> required_perm,
                    at |-> wall.sec, ret |-> ValidateTokenResult(token, required_perm)]
    /\ UNCHANGED <<users, sessions, wall, created, issued, dead>>

\* l.153-156
RevokeUserSessions(user_id) ==
    /\ sessions' = RetainOthers(sessions, user_id)
    /\ dead' = dead \cup {i.token : i \in {j \in issued : j.user_id = user_id}}
    /\ idp_last' = [op |-> "revoke_user_sessions"]
    /\ UNCHANGED <<users, wall, created, issued>>

ProviderCreateUser ==
    \E name \in Usernames, rs \in RoleLists :
        /\ Cardinality(created) < MaxCreated
        /\ CreateUser(name, <<"s", "1">>, rs)
        /\ UNCHANGED <<cluster, threads, memory, inspector, interceptor>>

ProviderAuthenticate ==
    \E name \in Usernames, pw \in Passwords :
        /\ Authenticate(name, pw)
        /\ UNCHANGED <<cluster, threads, memory, inspector, interceptor>>

ProviderValidateToken ==
    \E i \in issued, perm \in {"AccessVault", "AuditLogs"} :
        /\ ValidateToken(i.token, perm)
        /\ UNCHANGED <<cluster, threads, memory, inspector, interceptor>>

ProviderRevoke ==
    \E c \in created :
        /\ RevokeUserSessions(c.id)
        /\ UNCHANGED <<cluster, threads, memory, inspector, interceptor>>

\* the clock moves on by a nanosecond, by the validity of a token or by a
\* second more than that; between two calls it may also stand still
WallSteps ==
    {[sec |-> 0, ns |-> 1], [sec |-> TOKEN_VALIDITY_SEC, ns |-> 0],
     [sec |-> TOKEN_VALIDITY_SEC + 1, ns |-> 0]}

ProviderTick ==
    /\ \E d \in WallSteps :
          /\ wall.sec + d.sec <= StartClock + MaxElapsed
          /\ d.sec = 0 => wall.ns + d.ns <= MaxNs
          /\ wall' = [sec |-> wall.sec + d.sec,
                      ns |-> IF d.sec = 0 THEN wall.ns + d.ns ELSE 0]
    /\ UNCHANGED <<users, sessions, created, issued, dead, idp_last>>
    /\ UNCHANGED <<cluster, threads, memory, inspector, interceptor>>

NextProvider ==
    \/ ProviderCreateUser
    \/ ProviderAuthenticate
    \/ ProviderValidateToken
    \/ ProviderRevoke
    \/ ProviderTick

SpecProvider == Constructed /\ [][NextProvider]_vars

\* ---- MemoryRegion::new, resize, drop ---------------------------------------
\* Each thread owns the regions it created (resize takes &mut self, drop
\* takes the region), and the threads share the one static counter.  A step
\* is one atomic operation on the counter with the local statements after it.
MEMORY_LIMIT_BYTES == 1024 * 1024 * 512
MaxRegions == 2
RegionSizes ==
    {MEMORY_LIMIT_BYTES \div 4, MEMORY_LIMIT_BYTES \div 2, (MEMORY_LIMIT_BYTES \div 4) * 3}

RECURSIVE SumSizes(_)
SumSizes(sizes) ==
    IF sizes = <<>> THEN 0 ELSE Head(sizes) + SumSizes(Tail(sizes))

RECURSIVE LiveBytesOf(_)
LiveBytesOf(ts) ==
    IF ts = {} THEN 0
    ELSE LET t == CHOOSE x \in ts : TRUE
         IN  SumSizes(regions[t]) + LiveBytesOf(ts \ {t})

\* the sum of the sizes of the live regions
LiveBytes == LiveBytesOf(Threads)

Without(sizes, i) == SubSeq(sizes, 1, i - 1) \o SubSeq(sizes, i + 1, Len(sizes))

MemReturn(t, op, ret) ==
    /\ mem_pc' = [mem_pc EXCEPT ![t] = "idle"]
    /\ mem_frame' = [mem_frame EXCEPT ![t] = NoMemFrame]
    /\ mem_last' = [thread |-> t, op |-> op, ret |-> ret]

\* l.18: new(size, pid) loads the counter
NewLoad(t) ==
    \E size \in RegionSizes :
        /\ mem_pc[t] = "idle"
        /\ Len(regions[t]) < MaxRegions
        /\ mem_pc' = [mem_pc EXCEPT ![t] = "new_check"]
        /\ mem_frame' = [mem_frame EXCEPT ![t] =
                            [op |-> "new", size |-> size,
                             current_usage |-> GLOBAL_ALLOCATED, region |-> 0]]
        /\ UNCHANGED <<GLOBAL_ALLOCATED, regions, mem_last>>

\* l.19-31: None when the usage loaded plus size is over the limit,
\* otherwise fetch_add(size) and the region is returned
NewCheck(t) ==
    /\ mem_pc[t] = "new_check"
    /\ IF mem_frame[t].current_usage + mem_frame[t].size > MEMORY_LIMIT_BYTES
       THEN /\ MemReturn(t, "new", FALSE)
            /\ UNCHANGED <<GLOBAL_ALLOCATED, regions>>
       ELSE /\ GLOBAL_ALLOCATED' = GLOBAL_ALLOCATED + mem_frame[t].size
            /\ regions' = [regions EXCEPT ![t] = Append(@, mem_frame[t].size)]
            /\ MemReturn(t, "new", TRUE)

\* l.35: resize(new_size) on a region of the thread loads the counter
ResizeLoad(t) ==
    \E i \in 1..Len(regions[t]), new_size \in RegionSizes :
        /\ mem_pc[t] = "idle"
        /\ mem_pc' = [mem_pc EXCEPT ![t] = "resize_check"]
        /\ mem_frame' = [mem_frame EXCEPT ![t] =
                            [op |-> "resize", size |-> new_size,
                             current_usage |-> GLOBAL_ALLOCATED, region |-> i]]
        /\ UNCHANGED <<GLOBAL_ALLOCATED, regions, mem_last>>

\* l.36-53: diff is the growth or 0; false when the usage loaded plus diff is
\* over the limit, otherwise fetch_add of the growth or fetch_sub of the
\* shrinkage, and self.size = new_size
ResizeCheck(t) ==
    /\ mem_pc[t] = "resize_check"
    /\ LET i == mem_frame[t].region
           size == regions[t][i]
           new_size == mem_frame[t].size
           diff == IF new_size > size THEN new_size - size ELSE 0
       IN  IF mem_frame[t].current_usage + diff > MEMORY_LIMIT_BYTES
           THEN /\ MemReturn(t, "resize", FALSE)
                /\ UNCHANGED <<GLOBAL_ALLOCATED, regions>>
           ELSE /\ GLOBAL_ALLOCATED' =
                       IF new_size > size
                       THEN GLOBAL_ALLOCATED + (new_size - size)
                       ELSE GLOBAL_ALLOCATED - (size - new_size)
                /\ regions' = [regions EXCEPT ![t][i] = new_size]
                /\ MemReturn(t, "resize", TRUE)

\* l.73-77: drop of a region of the thread: fetch_sub(self.size)
DropRegion(t) ==
    \E i \in 1..Len(regions[t]) :
        /\ mem_pc[t] = "idle"
        /\ GLOBAL_ALLOCATED' = GLOBAL_ALLOCATED - regions[t][i]
        /\ regions' = [regions EXCEPT ![t] = Without(@, i)]
        /\ MemReturn(t, "drop", TRUE)

BesidesMemory == <<cluster, threads, inspector, interceptor, provider>>

NextMemory ==
    \/ \E t \in Threads : NewLoad(t) /\ UNCHANGED BesidesMemory
    \/ \E t \in Threads : NewCheck(t) /\ UNCHANGED BesidesMemory
    \/ \E t \in Threads : ResizeLoad(t) /\ UNCHANGED BesidesMemory
    \/ \E t \in Threads : ResizeCheck(t) /\ UNCHANGED BesidesMemory
    \/ \E t \in Threads : DropRegion(t) /\ UNCHANGED BesidesMemory

SpecMemory == Constructed /\ [][NextMemory]_vars

\* ==== the properties =====================================================
Terms == 0..MaxTerm
Quorums == {Q \in SUBSET Nodes : 2 * Cardinality(Q) > Cardinality(Nodes)}
Votes(T, c) == {n \in Nodes : <<n, T, c>> \in votesGranted}
Min(a, b) == IF a <= b THEN a ELSE b

\* C1: in one term a node grants its vote to at most one candidate, and
\* voted_for, once set, changes only in a step that raises current_term.
C1_OneVotePerTerm ==
    [][/\ \A n \in Nodes :
            (voted_for[n] # None /\ current_term'[n] = current_term[n])
                => voted_for'[n] = voted_for[n]
       /\ \A v, w \in votesGranted' :
            (v[1] = w[1] /\ v[2] = w[2]) => v[3] = w[3]]_vars

\* C1: a node that has voted in its term has refused the other candidate
C1_Witness ==
    /\ last.op = "request_vote"
    /\ ~last.ret
    /\ last.term = current_term[last.node]
    /\ voted_for[last.node] \notin {None, last.peer}
    /\ \E v \in votesGranted : v[1] = last.node /\ v[2] = last.term

\* C2: election safety: in no term do two candidates each hold the granted
\* votes of a strict majority, and no term has two nodes in state Leader.
C2_ElectionSafety ==
    /\ \A T \in Terms : \A c1, c2 \in CandidateIds :
          (Votes(T, c1) \in Quorums /\ Votes(T, c2) \in Quorums) => c1 = c2
    /\ \A a, b \in Nodes :
          (state[a] = Leader /\ state[b] = Leader /\ current_term[a] = current_term[b])
              => a = b

\* C2: a candidate holds a majority in a term in which the other one was
\* voted for too
C2_Witness ==
    \E T \in Terms : \E c1, c2 \in CandidateIds :
        /\ c1 # c2
        /\ Votes(T, c1) \in Quorums
        /\ Votes(T, c2) # {}

\* (last_log_term, last_log_idx) of the requester against the local log
UpToDate(last_log_term, last_log_idx, l) ==
    \/ last_log_term > LastTerm(l)
    \/ last_log_term = LastTerm(l) /\ last_log_idx >= Len(l)

\* C3: request_vote grants the vote iff the term is not stale, the vote is
\* free (after the adoption of a newer term) or the requester's, and the
\* requester's log is at least as up-to-date as the local one.  The request
\* has no last_log_term (l.101): any term up to the request's is allowed for it.
C3_GrantIffUpToDate ==
    last.op = "request_vote" =>
        (last.ret <=>
            /\ last.term >= last.pre_term
            /\ \/ last.term > last.pre_term
               \/ last.pre_vote \in {None, last.peer}
            /\ \E lt \in 0..last.term : UpToDate(lt, last.index, last.pre_log))

\* C4: current_term of a node never decreases
C4_TermMonotonic ==
    [][\A n \in Nodes : current_term'[n] >= current_term[n]]_vars

\* C4: the node has moved to a newer term and has since been called with an
\* older one
C4_Witness ==
    /\ last.op \in {"request_vote", "append_entries"}
    /\ last.term < last.pre_term
    /\ current_term[last.node] = last.pre_term

\* C5: a request_vote or append_entries of a newer term leaves the node in
\* that term as Follower; the vote of the older term is cleared before the
\* decision, so request_vote grants and append_entries leaves no vote.
C5_NewerTermAdopted ==
    (last.op \in {"request_vote", "append_entries"} /\ last.term > last.pre_term) =>
        /\ current_term[last.node] = last.term
        /\ state[last.node] = Follower
        /\ last.ret
        /\ last.op = "request_vote" => voted_for[last.node] = last.peer
        /\ last.op = "append_entries" => voted_for[last.node] = None

\* C5: a newer term reached a node that had voted for another candidate
C5_Witness ==
    /\ last.op = "request_vote"
    /\ last.term > last.pre_term
    /\ last.pre_vote \notin {None, last.peer}
    /\ voted_for[last.node] = last.peer

\* the log holds an entry of term prev_log_term at prev_log_index
PrefixMatches(l, prev_log_index, prev_log_term) ==
    \/ prev_log_index = 0
    \/ prev_log_index <= Len(l) /\ l[prev_log_index].term = prev_log_term

\* C6: an append_entries whose prev_log_index/prev_log_term the log does not
\* match is rejected and leaves the log and commit_index as they were.
C6_RejectOnMismatch ==
    (last.op = "append_entries"
        /\ ~PrefixMatches(last.pre_log, last.index, last.prev_term)) =>
        /\ ~last.ret
        /\ log[last.node] = last.pre_log
        /\ commit_index[last.node] = last.pre_commit

\* an entry of the request meets an entry of another term at its index
Conflict(l, prev_log_index, entries) ==
    \E k \in 1..Len(entries) :
        /\ prev_log_index + k <= Len(l)
        /\ l[prev_log_index + k].term # entries[k].term

\* C7: an accepted append_entries with an entry in conflict leaves the log
\* equal to the leader's entries from prev_log_index + 1 onward.
C7_ConflictTruncates ==
    (last.op = "append_entries" /\ last.ret
        /\ PrefixMatches(last.pre_log, last.index, last.prev_term)
        /\ Conflict(last.pre_log, last.index, last.entries)) =>
        log[last.node] = SubSeq(last.pre_log, 1, last.index) \o last.entries

\* C8: log matching: two logs with an entry of the same index and term are
\* equal up to that index.
C8_LogMatching ==
    \A a, b \in Nodes : \A i \in 1..Min(Len(log[a]), Len(log[b])) :
        log[a][i].term = log[b][i].term =>
            \A k \in 1..i : log[a][k] = log[b][k]

\* C9: state machine safety: two nodes that both hold index i committed
\* hold the same command there.
C9_StateMachineSafety ==
    \A a, b \in Nodes : \A i \in 1..Min(commit_index[a], commit_index[b]) :
        (i <= Len(log[a]) /\ i <= Len(log[b])) =>
            log[a][i].command = log[b][i].command

\* the logs that hold entry e at index i: those of the nodes, and the
\* sending leader's own
Holders(i, e) ==
    Cardinality({m \in Nodes : i <= Len(log[m]) /\ log[m][i] = e})
        + (IF i <= Len(leaderLog) /\ leaderLog[i] = e THEN 1 ELSE 0)

\* C10: every index up to a node's commit_index holds an entry that is in
\* the logs of a strict majority of the cluster.
C10_CommitOnQuorum ==
    \A n \in Nodes : \A i \in 1..commit_index[n] :
        /\ i <= Len(log[n])
        /\ 2 * Holders(i, log[n][i]) > Cardinality(Nodes)

Max(a, b) == IF a >= b THEN a ELSE b

\* C11: an accepted append_entries leaves commit_index at
\* min(leader_commit, index of the last new entry), and not below its
\* previous value.
C11_CommitIsMinOfLeaderCommit ==
    (last.op = "append_entries" /\ last.ret
        /\ PrefixMatches(last.pre_log, last.index, last.prev_term)) =>
        commit_index[last.node] =
            Max(last.pre_commit,
                Min(last.leader_commit, last.index + Len(last.entries)))

\* C12: commit_index of a node never decreases
C12_CommitMonotonic ==
    [][\A n \in Nodes : commit_index'[n] >= commit_index[n]]_vars

\* C12: a node with committed entries has taken an empty append_entries of a
\* newer term
C12_Witness ==
    /\ last.op = "append_entries"
    /\ last.ret
    /\ last.entries = <<>>
    /\ last.term > last.pre_term
    /\ last.pre_commit >= 1
    /\ commit_index[last.node] = last.pre_commit

\* C13: last_applied <= commit_index <= length of the log, on every node
C13_AppliedCommitLog ==
    \A n \in Nodes :
        /\ last_applied[n] <= commit_index[n]
        /\ commit_index[n] <= Len(log[n])

\* C13: entries have been appended and committed
C13_Witness ==
    /\ last.op = "append_entries"
    /\ last.ret
    /\ Len(last.entries) >= 1
    /\ last.pre_commit >= 1
    /\ commit_index[last.node] = Len(log[last.node])

\* C14: the terms of the entries of a log never decrease along the log
C14_LogTermsSorted ==
    \A n \in Nodes : \A i \in 1..(Len(log[n]) - 1) :
        log[n][i].term <= log[n][i + 1].term

\* the fields of the called node are those it had before the call
NodeUntouched ==
    /\ current_term[last.node] = last.pre_term
    /\ voted_for[last.node] = last.pre_vote
    /\ state[last.node] = last.pre_state
    /\ log[last.node] = last.pre_log
    /\ commit_index[last.node] = last.pre_commit

\* C15: request_vote of an older term returns false and changes no field
C15_StaleVoteRejected ==
    (last.op = "request_vote" /\ last.term < last.pre_term) =>
        (~last.ret /\ NodeUntouched)

\* C15: an older term asked for a vote that was free or the requester's own
C15_Witness ==
    /\ last.op = "request_vote"
    /\ last.term < last.pre_term
    /\ last.pre_vote \in {None, last.peer}
    /\ ~last.ret

\* C16: append_entries of an older term returns false and changes no field
C16_StaleAppendRejected ==
    (last.op = "append_entries" /\ last.term < last.pre_term) =>
        (~last.ret /\ NodeUntouched)

\* C16: an older term came with entries
C16_Witness ==
    /\ last.op = "append_entries"
    /\ last.term < last.pre_term
    /\ Len(last.entries) >= 1
    /\ ~last.ret

\* C17: an entry at a committed index is never removed or replaced, and the
\* log gets shorter only by losing entries that were not committed.
C17_CommittedImmutable ==
    [][\A n \in Nodes :
          /\ \A i \in 1..Min(commit_index[n], Len(log[n])) :
                i <= Len(log'[n]) /\ log'[n][i] = log[n][i]
          /\ Len(log'[n]) < Len(log[n]) => Len(log'[n]) >= commit_index[n]]_vars

\* C17: a request in conflict with committed entries was accepted and the
\* committed entries are still there
C17_Witness ==
    /\ last.op = "append_entries"
    /\ last.ret
    /\ last.pre_commit >= 1
    /\ last.index < last.pre_commit
    /\ Conflict(last.pre_log, last.index, last.entries)
    /\ SubSeq(log[last.node], 1, last.pre_commit) = last.pre_log

IsPrefix(a, b) == Len(a) <= Len(b) /\ SubSeq(b, 1, Len(a)) = a

\* C18: no operation removes or overwrites an entry of the node's own log,
\* in whatever role the node is, Leader included: the log before a step is a
\* prefix of the log after it.
C18_AppendOnly ==
    [][\A n \in Nodes : IsPrefix(log[n], log'[n])]_vars

\* C18: entries were appended behind the entries of a log
C18_Witness ==
    /\ last.op = "append_entries"
    /\ last.ret
    /\ Len(last.pre_log) >= 1
    /\ Len(last.entries) >= 1
    /\ log[last.node] = last.pre_log \o last.entries

\* C19: last_applied follows commit_index: it never exceeds it, moves one
\* index at a time, and reaches every index that has been committed.
C19_ApplyPipeline ==
    /\ [](\A n \in Nodes : last_applied[n] <= commit_index[n])
    /\ [][\A n \in Nodes : \/ last_applied'[n] = last_applied[n]
                           \/ last_applied'[n] = last_applied[n] + 1]_vars
    /\ \A n \in Nodes : \A k \in 1..MaxLog :
          (commit_index[n] >= k) ~> (last_applied[n] >= k)

\* C20: Scenario A: node 1, candidate of term 1 with the votes of a majority,
\* its own included, comes to be Leader in term 1.
C20_ScenarioALeader ==
    <>(state["n1"] = Leader /\ current_term["n1"] = 1)

\* C21: a node on which no operation has been called since new is Follower
\* in term 0 with an empty log, no vote, commit_index 0 and last_applied 0.
C21_NewNode ==
    last.op = "new" =>
        \A n \in Nodes :
            /\ state[n] = Follower
            /\ current_term[n] = 0
            /\ log[n] = <<>>
            /\ voted_for[n] = None
            /\ commit_index[n] = 0
            /\ last_applied[n] = 0

\* C21: nodes of different ids and peer lists have been constructed, the
\* transport already carries entries, and no node has been called yet
C21_Witness ==
    /\ last.op = "new"
    /\ \A n \in Nodes : DOMAIN peers[n] = Nodes \ {n}
    /\ Len(leaderLog) >= 1

\* C22: every peer record has next_index >= 1 and match_index < next_index
\* (match_index <= next_index - 1 with no underflow), and the peer records of
\* a Leader have next_index = length of the log + 1 and match_index = 0.
C22_PeerIndexes ==
    \A n \in Nodes : \A p \in DOMAIN peers[n] :
        /\ peers[n][p].next_index >= 1
        /\ peers[n][p].match_index < peers[n][p].next_index
        /\ state[n] = Leader =>
              /\ peers[n][p].next_index = Len(log[n]) + 1
              /\ peers[n][p].match_index = 0

Handlers == {"request_vote", "append_entries"}

\* C23: a handler that ran among other threads returns what it would have
\* returned, and leaves the fields as it would have left them, had it run
\* alone at the moment it took its first lock: the calls are in the order in
\* which they took it.
C23_HandlersSerial ==
    \A t \in Threads :
        (pc[t] = "ret" /\ frame[t].op \in Handlers) =>
            /\ frame[t].ret = frame[t].expect.ret
            /\ frame[t].post = frame[t].expect.mem

\* C23: a handler has written a newer term and returned while another
\* thread, called meanwhile with an older term, waits for its first lock
C23_Witness ==
    \E t, u \in Threads :
        /\ pc[t] = "ret"
        /\ frame[t].op = "append_entries"
        /\ frame[t].ret
        /\ Len(frame[t].entries) = 1
        /\ frame[t].post.current_term = frame[t].term
        /\ frame[t].term = 2
        /\ pc[u] \in {"rv_term", "ae_term"}
        /\ frame[u].term = 1

\* C24: the status returned by get_status is one the engine held, between
\* two handlers, at some moment of the call.
C24_StatusAtomic ==
    \A t \in Threads :
        pc[t] = "gs_ret" => frame[t].report \in seen[t]

\* C24: get_status has returned while a handler of a newer term, with an
\* entry, was called and waits
C24_Witness ==
    \E t, u \in Threads :
        /\ pc[t] = "gs_ret"
        /\ frame[t].report \in seen[t]
        /\ pc[u] = "ae_term"
        /\ frame[u].term > current_term[Observed]
        /\ Len(frame[u].entries) = 1
        /\ Len(log[Observed]) >= 1

\* the lock a thread is about to take, and how
Wants(t) ==
    CASE pc[t] \in {"rv_term", "ae_term"} -> <<"current_term", "write">>
      [] pc[t] \in {"rv_vote", "ae_vote"} -> <<"voted_for", "write">>
      [] pc[t] \in {"rv_state", "ae_state"} -> <<"state", "write">>
      [] pc[t] = "ae_log" -> <<"log", "write">>
      [] pc[t] \in {"gs_state", "rl_state"} -> <<"state", "read">>
      [] pc[t] = "gs_term" -> <<"current_term", "read">>
      [] pc[t] = "gs_log" -> <<"log", "read">>
      [] OTHER -> <<None, None>>

\* t cannot go on before u has released a lock
WaitsFor(t, u) ==
    LET w == Wants(t)
    IN  /\ t # u
        /\ w[1] # None
        /\ \/ locks[w[1]].writer = u
           \/ w[2] = "write" /\ u \in locks[w[1]].readers

\* C30: no set of threads is such that each of them waits for a lock that
\* another of them holds: every call can go on to its return.
C30_DeadlockFree ==
    \A S \in (SUBSET Threads) \ {{}} :
        ~(\A t \in S : \E u \in S : WaitsFor(t, u))

\* C25: among the calls of check_rate_limit made within the last 60 seconds
\* at most 60 have returned true; a call returns false exactly when 60 calls
\* admitted before it lie in that window, and is then not recorded; the
\* request log never holds more than 60 timestamps, all of admitted calls.
C25_RateLimit ==
    /\ Len(Retained(admitted, now)) <= MAX_REQUESTS_PER_MINUTE
    /\ Len(request_log) <= MAX_REQUESTS_PER_MINUTE
    /\ rate_last.calls > 0 =>
          /\ rate_last.ret <=> rate_last.before < MAX_REQUESTS_PER_MINUTE
          /\ request_log = admitted
          /\ ~rate_last.ret => request_log = Retained(rate_last.pre_log, rate_last.at)

\* C25: a call has been rejected with 60 admitted calls in the window, some
\* of them half a window old
C25_Witness ==
    /\ rate_last.calls > 0
    /\ ~rate_last.ret
    /\ rate_last.before = MAX_REQUESTS_PER_MINUTE
    /\ Len(request_log) = MAX_REQUESTS_PER_MINUTE
    /\ request_log[1] < now

\* the interceptor is active after the first i calls of the trace
ActiveAfter(i) == IF i = 0 THEN FALSE ELSE hook_trace[i].after

\* C26: in every sequence of attach and detach calls from an inactive
\* interceptor, attach is Ok exactly when inactive and leaves it active,
\* detach is Ok exactly when active and leaves it inactive, an Err leaves
\* the flag as it was, and an attach that follows an attach with no detach
\* between them is Err.
C26_Lifecycle ==
    /\ active = ActiveAfter(Len(hook_trace))
    /\ \A i \in 1..Len(hook_trace) :
          LET c == hook_trace[i]
          IN  /\ c.before = ActiveAfter(i - 1)
              /\ c.op = "attach" => (c.ok <=> ~c.before) /\ (c.ok => c.after)
              /\ c.op = "detach" => (c.ok <=> c.before) /\ (c.ok => ~c.after)
              /\ ~c.ok => c.after = c.before
    /\ \A i, j \in 1..Len(hook_trace) :
          (/\ i < j
           /\ hook_trace[i].op = "attach"
           /\ hook_trace[j].op = "attach"
           /\ \A k \in (i + 1)..(j - 1) : hook_trace[k].op = "attach") =>
              ~hook_trace[j].ok

\* C26: attach, attach again (Err), detach, detach again (Err), attach
C26_Witness ==
    /\ Len(hook_trace) >= 5
    /\ [i \in 1..5 |-> hook_trace[i].op]
          = <<"attach", "attach", "detach", "detach", "attach">>
    /\ [i \in 1..5 |-> hook_trace[i].ok] = <<TRUE, FALSE, TRUE, FALSE, TRUE>>

\* C27: authenticate with the name and password of a user that create_user
\* has returned Ok for returns a token; validate_token of an issued token is
\* true exactly for the permissions of the roles of its user, while the token
\* is not older than its validity and its user's sessions have not been
\* revoked since it was issued.
C27_AuthFlow ==
    /\ idp_last.op = "authenticate" =>
          ((\E c \in created : /\ c.username = idp_last.username
                               /\ c.password = idp_last.password)
              => idp_last.ok)
    /\ idp_last.op = "validate_token" =>
          (idp_last.ret <=>
              \E i \in issued :
                  /\ i.token = idp_last.token
                  /\ idp_last.perm \in EffectivePerms(i.roles)
                  /\ idp_last.at <= i.at + TOKEN_VALIDITY_SEC
                  /\ i.token \notin dead)

\* C28: the node is Follower when append_entries returns true, whatever its
\* role was and also when the request's term is its own.
C28_AcceptMakesFollower ==
    (last.op = "append_entries" /\ last.ret) => state[last.node] = Follower

\* C29: replicate_log changes no field of the engine, sends nothing and
\* casts no vote, in whatever role the node is.
C29_ReplicateLogReadOnly ==
    [][last'.op = "replicate_log" =>
          UNCHANGED <<engine, leaderTerm, leaderLog, votesGranted>>]_vars

\* C29: replicate_log has been called on a Leader with an entry in its log
C29_Witness ==
    /\ last.op = "replicate_log"
    /\ state[last.node] = Leader
    /\ last.pre_state = Leader
    /\ Len(log[last.node]) >= 1
    /\ log[last.node] = last.pre_log

\* C31: delivering an accepted AppendEntries request again (same term,
\* leader, prev_log_index and entries, with no other call on the node in
\* between) leaves the log and commit_index of the follower as they were
\* after the first delivery: no entry is duplicated.
C31_AppendEntriesIdempotent ==
    [][(/\ last.op = "append_entries"
        /\ last.ret
        /\ last'.op = "append_entries"
        /\ last'.node = last.node
        /\ last'.term = last.term
        /\ last'.peer = last.peer
        /\ last'.index = last.index
        /\ last'.prev_term = last.prev_term
        /\ last'.entries = last.entries
        /\ last'.leader_commit = last.leader_commit)
       => /\ log' = log
          /\ commit_index' = commit_index]_vars

\* C32: under any interleaving of new, resize and drop, GLOBAL_ALLOCATED is
\* never over MEMORY_LIMIT_BYTES and equals the sum of the sizes of the live
\* regions.
C32_MemoryLimit ==
    /\ GLOBAL_ALLOCATED <= MEMORY_LIMIT_BYTES
    /\ GLOBAL_ALLOCATED = LiveBytes

====
